---- MODULE Spec2Model ----
(***************************************************************************)
(* Alert engine of SubTrack: AlertsService (processAlertsForTenant,        *)
(* processRenewalAlerts, processOverdueAlerts, processDataQualityAlerts,   *)
(* sendAlert, sendDataQualityAlert, isInQuietHours, sendMonthlySummary).   *)
(*                                                                         *)
(* One tenant is modelled: every query of the service filters on tenantId, *)
(* so the rows of other tenants never enter a run.  An instant is a number *)
(* of slots since the epoch; a day has SlotsPerDay slots.  A run is a      *)
(* sequence of steps, one per awaited storage or network call.             *)
(*                                                                         *)
(* The worker process (worker.ts) is modelled around it: the queue of      *)
(* repeatable jobs scheduleRecurringJobs fills, the jobs the Worker has    *)
(* in flight, and the tenant table TenantsService writes.                  *)
(***************************************************************************)
EXTENDS Integers, Sequences, FiniteSets, TLC

\* clock: the current instant; settings, channels, subs: the AlertSettings,
\* AlertChannel and Subscription rows of the tenant; logs: its AlertLog rows
\* in order of creation (the index is the id); run: the position of the job
\* being executed; hist: history of the POSTs that leave no AlertLog and of
\* the gate; probe: the latest evaluation of isInQuietHours on its own;
\* tenants: the isActive column of the Tenant table; queue: the "alerts"
\* queue (repeatable jobs and the job instances of the current occasion);
\* parked: the run of a second job in flight, suspended at an await while
\* the event loop executes the step of run; proc: the worker process, from
\* its start to process.exit, and where the run was when a signal arrived
VARIABLES clock, settings, channels, subs, logs, run, hist, probe,
          tenants, queue, parked, proc

vars == <<clock, settings, channels, subs, logs, run, hist, probe,
          tenants, queue, parked, proc>>

\* what a step of the alert service leaves alone
workerVars == <<tenants, queue, parked, proc>>

(***************************************************************************)
(* Bounds of the model.                                                    *)
(***************************************************************************)
SlotsPerDay == 2
HorizonDays == 1
DqHorizonDays == 8
QuietHorizonDays == 1
MaxLogs == 3
ProcessTz == 0
DaysPerMonth == 30
MaxBoots == 2
WindowHorizonDays == 0
WindowDays == 15
LeadHorizonDays == 0

MinutesPerSlot == (24 * 60) \div SlotsPerDay
None == 0 - 1

SubIds == {"s1", "s2"}
ChannelIds == {"c1", "c2"}
NoSub == "none"

(***************************************************************************)
(* Time: date-fns addDays / format and Date.setHours work in the local     *)
(* timezone of the worker process (offset ProcessTz, in slots).            *)
(***************************************************************************)
addDays(t, n) == t + n * SlotsPerDay

StartOfDay(t) == t - ((t + ProcessTz) % SlotsPerDay)

EndOfDay(t) == StartOfDay(t) + (SlotsPerDay - 1)

LocalMinutes(t) == ((t + ProcessTz) % SlotsPerDay) * MinutesPerSlot

\* minute of the day of instant t on the wall clock of a zone at offset tz
ZoneMinutes(t, tz) == ((t + tz) % SlotsPerDay) * MinutesPerSlot

DayOf(t) == (t + ProcessTz) \div SlotsPerDay

MonthOf(t) == DayOf(t) \div DaysPerMonth

(***************************************************************************)
(* Strings "HH:mm": a sequence of character codes, the digits 0..9 and     *)
(* the colon, which sorts after every digit.  JavaScript compares strings  *)
(* code unit by code unit; a proper prefix sorts first.                    *)
(***************************************************************************)
Colon == 10

format(m) ==
  << (m \div 60) \div 10, (m \div 60) % 10, Colon, (m % 60) \div 10, (m % 60) % 10 >>

RECURSIVE StrLess(_, _)
StrLess(a, b) ==
  IF b = << >> THEN FALSE
  ELSE IF a = << >> THEN TRUE
  ELSE IF Head(a) # Head(b) THEN Head(a) < Head(b)
  ELSE StrLess(Tail(a), Tail(b))

StrLeq(a, b) == a = b \/ StrLess(a, b)

\* the minute of the day a well-formed "HH:mm" string denotes
ParseHHmm(s) == (s[1] * 10 + s[2]) * 60 + s[4] * 10 + s[5]

Unset == << >>

isInQuietHoursAt_Exclusive(st, currentTime) ==
  IF st.quietHoursStart = Unset \/ st.quietHoursEnd = Unset THEN FALSE
  ELSE IF StrLeq(st.quietHoursStart, st.quietHoursEnd)
       THEN StrLeq(st.quietHoursStart, currentTime) /\ StrLess(currentTime, st.quietHoursEnd)
       ELSE StrLeq(st.quietHoursStart, currentTime) \/ StrLess(currentTime, st.quietHoursEnd)

\* the comparison of isInQuietHours on the formatted current time
isInQuietHoursAt(st, currentTime) ==
  IF st.quietHoursStart = Unset \/ st.quietHoursEnd = Unset THEN FALSE
  ELSE IF StrLeq(st.quietHoursStart, st.quietHoursEnd)
       THEN StrLeq(st.quietHoursStart, currentTime) /\ StrLeq(currentTime, st.quietHoursEnd)
       ELSE StrLeq(st.quietHoursStart, currentTime) \/ StrLeq(currentTime, st.quietHoursEnd)

isInQuietHours(st, t) == isInQuietHoursAt(st, format(LocalMinutes(t)))


(***************************************************************************)
(* Stored data.                                                            *)
(***************************************************************************)
RuleOrder == << "DAYS_14", "DAYS_7", "DAYS_3", "TOMORROW", "OVERDUE", "DATA_QUALITY" >>

LeadRules == {"DAYS_14", "DAYS_7", "DAYS_3", "TOMORROW"}

daysBefore(ruleType) ==
  CASE ruleType = "DAYS_14" -> 14
    [] ruleType = "DAYS_7" -> 7
    [] ruleType = "DAYS_3" -> 3
    [] ruleType = "TOMORROW" -> 1

\* the settings row getAlertSettings creates; present = FALSE stands for no row
DefaultSettings ==
  [ present |-> TRUE,
    enable14Days |-> TRUE, enable7Days |-> TRUE, enable3Days |-> TRUE,
    enableTomorrow |-> TRUE, enableOverdue |-> TRUE,
    enableMonthlySummary |-> TRUE, enableDataQuality |-> TRUE,
    quietHoursStart |-> Unset, quietHoursEnd |-> Unset, timezone |-> 0 ]

NoSettings == [DefaultSettings EXCEPT !.present = FALSE]

ruleEnabled(st, ruleType) ==
  CASE ruleType = "DAYS_14" -> st.enable14Days
    [] ruleType = "DAYS_7" -> st.enable7Days
    [] ruleType = "DAYS_3" -> st.enable3Days
    [] ruleType = "TOMORROW" -> st.enableTomorrow
    [] ruleType = "OVERDUE" -> st.enableOverdue
    [] ruleType = "DATA_QUALITY" -> st.enableDataQuality

\* alertChannel.findMany({ where: { tenantId, isActive: true } })
ActiveChannels == {c \in ChannelIds : channels[c].isActive}

\* the orders in which a findMany without orderBy can return a set of rows
Orders(S) ==
  {q \in [1 .. Cardinality(S) -> S] : \A i, j \in 1 .. Cardinality(S) : q[i] = q[j] => i = j}

LogIds == 1 .. Len(logs)

KeyOf(row) == << row.subscriptionId, row.ruleType, row.dueDate >>

(***************************************************************************)
(* The queries of the rules.                                               *)
(***************************************************************************)
\* every renewal up to the end of the target day
RenewalCandidates_UpTo(now, days) ==
  {s \in SubIds : /\ subs[s].status = "ACTIVE"
                  /\ subs[s].nextRenewalDate <= EndOfDay(addDays(now, days))}

RenewalCandidates(now, days) ==
  LET targetDate == addDays(now, days)
      startOfDay == StartOfDay(targetDate)
      endOfDay == EndOfDay(targetDate)
  IN {s \in SubIds : /\ subs[s].status = "ACTIVE"
                     /\ subs[s].nextRenewalDate >= startOfDay
                     /\ subs[s].nextRenewalDate <= endOfDay}

OverdueCandidates(now) ==
  {s \in SubIds : subs[s].status = "ACTIVE" /\ subs[s].nextRenewalDate < now}

ProblematicSubscriptions ==
  {s \in SubIds : subs[s].status = "ACTIVE" /\ subs[s].missingData}

\* the lookup finds no row
ExistingRenewalAlert_Never(s, ruleType) == FALSE

ExistingRenewalAlert_AnyStatus(s, ruleType) ==
  \E i \in LogIds : /\ logs[i].subscriptionId = s
                    /\ logs[i].ruleType = ruleType
                    /\ logs[i].dueDate = subs[s].nextRenewalDate

\* only a row still Pending counts as handled
ExistingRenewalAlert_PendingOnly(s, ruleType) ==
  \E i \in LogIds : /\ logs[i].subscriptionId = s
                    /\ logs[i].ruleType = ruleType
                    /\ logs[i].dueDate = subs[s].nextRenewalDate
                    /\ logs[i].status = "PENDING"

ExistingRenewalAlert(s, ruleType) ==
  \E i \in LogIds : /\ logs[i].subscriptionId = s
                    /\ logs[i].ruleType = ruleType
                    /\ logs[i].dueDate = subs[s].nextRenewalDate
                    /\ logs[i].status \in {"SENT", "PENDING"}

\* only a row that is Sent or Pending counts, as for the lead-time rules
ExistingOverdueAlert_HandledOnly(s, today) ==
  \E i \in LogIds : /\ logs[i].subscriptionId = s
                    /\ logs[i].ruleType = "OVERDUE"
                    /\ logs[i].createdAt >= today
                    /\ logs[i].status \in {"SENT", "PENDING"}

\* alertLog.findFirst of processOverdueAlerts: ruleType OVERDUE and
\* createdAt gte today, no condition on the status
ExistingOverdueAlert(s, today) ==
  \E i \in LogIds : /\ logs[i].subscriptionId = s
                    /\ logs[i].ruleType = "OVERDUE"
                    /\ logs[i].createdAt >= today

ExistingDataQualityAlert(oneWeekAgo) ==
  \E i \in LogIds : /\ logs[i].ruleType = "DATA_QUALITY"
                    /\ logs[i].createdAt >= oneWeekAgo

(***************************************************************************)
(* A run: the position of the one job being executed.                      *)
(***************************************************************************)
Idle ==
  [ pc |-> "idle", op |-> "none", now |-> None, st |-> NoSettings,
    channels |-> << >>, rule |-> 0, todo |-> {}, sub |-> NoSub,
    chans |-> << >>, logId |-> 0 ]

\* history: the instants of the latest data-quality POST, of the latest
\* monthly POST to each channel and of the latest run the gate suppressed,
\* whether a run was ever suspended in favour of another job, and the
\* instant of the latest run that found no settings
NoHistory ==
  [ lastDq |-> None, lastMonthly |-> [c \in ChannelIds |-> None], quietSkipAt |-> None,
    suspended |-> FALSE, noSettingsAt |-> None ]

\* the loop over the subscriptions of a rule goes on, or the next rule starts
AfterCandidate(r) ==
  IF r.todo = {}
  THEN [r EXCEPT !.pc = "rule", !.rule = r.rule + 1, !.sub = NoSub, !.chans = << >>, !.logId = 0]
  ELSE [r EXCEPT !.pc = "cand", !.sub = NoSub, !.chans = << >>, !.logId = 0]

\* the gate logs the skip and goes on to the rules
processAlertsForTenant_NoReturn ==
  /\ run.pc = "idle"
  /\ UNCHANGED <<clock, settings, channels, subs, probe, logs>>
  /\ settings.present
  /\ ActiveChannels # {}
  /\ \E order \in Orders(ActiveChannels) :
       run' = [Idle EXCEPT !.pc = "rule", !.op = "daily", !.now = clock,
                           !.st = settings, !.channels = order, !.rule = 1]
  /\ hist' = IF isInQuietHours(settings, clock)
             THEN [hist EXCEPT !.quietSkipAt = clock] ELSE hist

processAlertsForTenant ==
  /\ run.pc = "idle"
  /\ UNCHANGED <<clock, settings, channels, subs, probe, logs>>
  /\ IF ~settings.present
     THEN \* logger.warn('No alert settings found for tenant'); return
          /\ run' = run
          /\ hist' = [hist EXCEPT !.noSettingsAt = clock]
     ELSE IF ActiveChannels = {}
     THEN UNCHANGED <<run, hist>>
     ELSE IF isInQuietHours(settings, clock)
     THEN /\ run' = run
          /\ hist' = [hist EXCEPT !.quietSkipAt = clock]
     ELSE /\ \E order \in Orders(ActiveChannels) :
               run' = [Idle EXCEPT !.pc = "rule", !.op = "daily", !.now = clock,
                                   !.st = settings, !.channels = order, !.rule = 1]
          /\ hist' = hist

\* every rule is evaluated, whatever the settings say
NextRule_IgnoresSettings ==
  /\ run.pc = "rule"
  /\ UNCHANGED <<clock, settings, channels, subs, probe, logs, hist>>
  /\ IF run.rule > Len(RuleOrder)
     THEN run' = Idle
     ELSE LET ruleType == RuleOrder[run.rule]
              skip == [run EXCEPT !.rule = run.rule + 1]
          IN IF ruleType = "DATA_QUALITY"
             THEN IF ProblematicSubscriptions = {} THEN run' = skip
                  ELSE IF ExistingDataQualityAlert(addDays(run.now, 0 - 7)) THEN run' = skip
                  ELSE run' = [run EXCEPT !.pc = "dq", !.chans = run.channels]
             ELSE LET found == IF ruleType = "OVERDUE"
                               THEN OverdueCandidates(run.now)
                               ELSE RenewalCandidates(run.now, daysBefore(ruleType))
                  IN IF found = {} THEN run' = skip
                     ELSE run' = [run EXCEPT !.pc = "cand", !.todo = found]

\* one "if (settings.enableX) await this.processX(...)" up to its first loop
NextRule ==
  /\ run.pc = "rule"
  /\ UNCHANGED <<clock, settings, channels, subs, probe, logs, hist>>
  /\ IF run.rule > Len(RuleOrder)
     THEN run' = Idle
     ELSE LET ruleType == RuleOrder[run.rule]
              skip == [run EXCEPT !.rule = run.rule + 1]
          IN IF ~ruleEnabled(run.st, ruleType) THEN run' = skip
             ELSE IF ruleType = "DATA_QUALITY"
             THEN IF ProblematicSubscriptions = {} THEN run' = skip
                  ELSE IF ExistingDataQualityAlert(addDays(run.now, 0 - 7)) THEN run' = skip
                  ELSE run' = [run EXCEPT !.pc = "dq", !.chans = run.channels]
             ELSE LET found == IF ruleType = "OVERDUE"
                               THEN OverdueCandidates(run.now)
                               ELSE RenewalCandidates(run.now, daysBefore(ruleType))
                  IN IF found = {} THEN run' = skip
                     ELSE run' = [run EXCEPT !.pc = "cand", !.todo = found]

\* the head of the loop body: the dedup lookup for one subscription
CheckCandidate ==
  /\ run.pc = "cand"
  /\ UNCHANGED <<clock, settings, channels, subs, probe, logs, hist>>
  /\ \E s \in run.todo :
       LET ruleType == RuleOrder[run.rule]
           today == StartOfDay(run.now)
           existingAlert == IF ruleType = "OVERDUE"
                            THEN ExistingOverdueAlert(s, today)
                            ELSE ExistingRenewalAlert(s, ruleType)
           \* now.setHours(0, 0, 0, 0) changes the Date the run shares
           r == [run EXCEPT !.todo = run.todo \ {s},
                            !.now = IF ruleType = "OVERDUE" THEN today ELSE run.now]
       IN IF existingAlert
          THEN run' = AfterCandidate(r)
          ELSE run' = [r EXCEPT !.pc = "send", !.sub = s, !.chans = run.channels]

NewLog(c, s, ruleType) ==
  [ subscriptionId |-> s, ruleType |-> ruleType, dueDate |-> subs[s].nextRenewalDate,
    channelId |-> c, status |-> "PENDING", createdAt |-> clock,
    responseCode |-> None, sentAt |-> None, errorMessage |-> FALSE ]

\* the row of an earlier attempt is taken again instead of a new one
sendAlertCreate_Reuse ==
  LET fresh == NewLog(Head(run.chans), run.sub, RuleOrder[run.rule])
      old == { i \in LogIds : KeyOf(logs[i]) = KeyOf(fresh) }
  IN /\ run.pc = "send"
     /\ Len(logs) < MaxLogs
     /\ IF old = {}
        THEN /\ logs' = Append(logs, fresh)
             /\ run' = [run EXCEPT !.pc = "post", !.logId = Len(logs) + 1]
        ELSE LET i == CHOOSE j \in old : TRUE
             IN /\ logs' = [logs EXCEPT ![i] = fresh]
                /\ run' = [run EXCEPT !.pc = "post", !.logId = i]
     /\ UNCHANGED <<clock, settings, channels, subs, probe, hist>>

\* sendAlert, first half: alertLog.create with status PENDING
sendAlertCreate ==
  /\ run.pc = "send"
  /\ Len(logs) < MaxLogs
  /\ logs' = Append(logs, NewLog(Head(run.chans), run.sub, RuleOrder[run.rule]))
  /\ run' = [run EXCEPT !.pc = "post", !.logId = Len(logs) + 1]
  /\ UNCHANGED <<clock, settings, channels, subs, probe, hist>>

NetOutcomes == {"2xx", "non2xx", "neterr"}
DbOutcomes == {"ok", "first_update_fails", "down"}

\* every answer counts as a success, whatever its status
Success_AnyResponse(net) == net # "neterr"

\* sendGoogleChatAlert: result.success is response.ok
Success(net) == net = "2xx"

\* the status the two alertLog.update calls of sendAlert leave, "PENDING"
\* when the error leaves sendAlert
Finalized(type, net, db) ==
  IF type # "GOOGLE_CHAT"
  THEN IF db = "ok" \/ db = "first_update_fails" THEN "FAILED" ELSE "PENDING"
  ELSE IF net = "neterr"
  THEN IF db = "ok" THEN "FAILED" ELSE "PENDING"
  ELSE IF db = "ok" THEN (IF Success(net) THEN "SENT" ELSE "FAILED")
  ELSE IF db = "first_update_fails" THEN "FAILED"
  ELSE "PENDING"

\* result.statusCode of sendGoogleChatAlert; responseCode stays 0 for the
\* channel types that make no request
StatusCode(type, net) ==
  IF type # "GOOGLE_CHAT" THEN 0 ELSE IF net = "2xx" THEN 200 ELSE 500

\* the update in the try block is reached and succeeds
FirstUpdateWrites(type, net, db) ==
  db = "ok" /\ (type # "GOOGLE_CHAT" \/ net # "neterr")

\* the row the two alertLog.update calls of sendAlert leave: the one in the
\* try block writes status, responseCode and sentAt, the one in the catch
\* block writes status FAILED and errorMessage
FinalRow(row, type, net, db) ==
  LET success == type = "GOOGLE_CHAT" /\ Success(net)
  IN IF Finalized(type, net, db) = "PENDING" THEN row
     ELSE IF FirstUpdateWrites(type, net, db)
     THEN [row EXCEPT !.status = Finalized(type, net, db),
                      !.responseCode = StatusCode(type, net),
                      !.sentAt = IF success THEN clock ELSE None]
     ELSE [row EXCEPT !.status = Finalized(type, net, db), !.errorMessage = TRUE]

\* sendAlert, second half, when the channel answers net and the storage
\* behaves as db: the dispatch by channel type and the finalizing update
DispatchWith(net, db) ==
  LET c == Head(run.chans)
      status == Finalized(channels[c].type, net, db)
      rest == [run EXCEPT !.chans = Tail(run.chans), !.logId = 0]
  IN /\ run.pc = "post"
     /\ UNCHANGED <<clock, settings, channels, subs, probe>>
     \* the stub channel types make no request: one outcome stands for all
     /\ channels[c].type = "GOOGLE_CHAT" \/ net = "2xx"
     /\ logs' = [logs EXCEPT ![run.logId] = FinalRow(logs[run.logId], channels[c].type, net, db)]
     /\ hist' = hist
     /\ run' = IF status = "PENDING" THEN Idle
               ELSE IF rest.chans = << >> THEN AfterCandidate(rest)
               ELSE [rest EXCEPT !.pc = "send"]

sendAlertDispatch ==
  \E net \in NetOutcomes, db \in DbOutcomes : DispatchWith(net, db)

\* sendDataQualityAlert: one fetch per channel, no AlertLog, no try/catch
sendDataQualityAlert ==
  /\ run.pc = "dq"
  /\ UNCHANGED <<clock, settings, channels, subs, probe, logs>>
  /\ \E net \in NetOutcomes :
       /\ hist' = [hist EXCEPT !.lastDq = clock]
       /\ run' = IF net = "neterr" THEN Idle
                 ELSE IF Tail(run.chans) = << >>
                 THEN [run EXCEPT !.pc = "rule", !.rule = run.rule + 1, !.chans = << >>]
                 ELSE [run EXCEPT !.chans = Tail(run.chans)]

\* updateAlertChannel with dto.isActive: an admin switches a channel on or off
updateAlertChannel ==
  /\ \E c \in ChannelIds, a \in BOOLEAN :
       /\ channels[c].isActive # a
       /\ channels' = [channels EXCEPT ![c].isActive = a]
  /\ UNCHANGED <<clock, settings, subs, probe, logs, run, hist>>

\* getAlertSettings, the read of the settings API: it creates the row with
\* the defaults when the tenant has none
getAlertSettings ==
  /\ settings' = IF settings.present THEN settings ELSE DefaultSettings
  /\ UNCHANGED <<clock, channels, subs, probe, logs, run, hist>>

\* sendMonthlySummary up to its loop over the channels
sendMonthlySummary ==
  /\ run.pc = "idle"
  /\ UNCHANGED <<clock, settings, channels, subs, probe, logs>>
  /\ IF ~settings.present \/ ~settings.enableMonthlySummary
     THEN UNCHANGED <<run, hist>>
     ELSE IF ActiveChannels = {}
     THEN UNCHANGED <<run, hist>>
     ELSE /\ \E order \in Orders(ActiveChannels) :
               run' = [Idle EXCEPT !.pc = "monthly", !.op = "monthly", !.now = clock,
                                   !.st = settings, !.channels = order, !.chans = order]
          /\ hist' = hist

\* the body of the loop of sendMonthlySummary: fetch inside try/catch
sendMonthlyPost ==
  /\ run.pc = "monthly"
  /\ UNCHANGED <<clock, settings, channels, subs, probe, logs>>
  /\ \E net \in NetOutcomes :
       /\ run' = IF Tail(run.chans) = << >> THEN Idle
                 ELSE [run EXCEPT !.chans = Tail(run.chans)]
       /\ hist' = [hist EXCEPT !.lastMonthly[Head(run.chans)] = clock]

\* time passes between jobs, up to the last slot of day maxDay (a job is
\* short against a slot: its instants all read the same clock)
Tick(maxDay) ==
  /\ run.pc = "idle"
  /\ clock + 1 < (maxDay + 1) * SlotsPerDay
  /\ clock' = clock + 1
  /\ UNCHANGED <<settings, channels, subs, probe, logs, run, hist>>

(***************************************************************************)
(* The worker process: the "alerts" queue, its Worker and the tenants.     *)
(* Of the run a job starts the Worker sees whether it returned or threw.   *)
(***************************************************************************)
TenantIds == {"t1", "t2", "t3"}

\* new Worker('alerts', processor, { connection, concurrency: 5 })
Concurrency == 5

\* alertQueue.add(name, data, { repeat, jobId }) gives no attempts and no
\* backoff option: a job instance is attempted once
Attempts == 1

NoJob == [state |-> "none", attemptsMade |-> 0]

JobNames == {"process-alerts", "monthly-summary"}

\* jobId: `daily-alerts-${tenant.id}` and `monthly-summary-${tenant.id}`
jobId(name, t) ==
  IF name = "process-alerts" THEN << "daily-alerts", t >> ELSE << "monthly-summary", t >>

\* what identifies a repeatable job of the queue: its name and its jobId (the
\* cron pattern is fixed by the name)
RepeatKeys == { << name, jobId(name, t) >> : name \in JobNames, t \in TenantIds }

\* repeat: the number of repeatable jobs registered under each key; jobs: the
\* daily job instance of each tenant at the current occasion; boots: the
\* number of times the worker process has started
EmptyQueue ==
  [ repeat |-> [k \in RepeatKeys |-> 0], jobs |-> [t \in TenantIds |-> NoJob], boots |-> 0 ]

\* every add registers one more repeatable job
add_Again(reg, name, t) == [reg EXCEPT ![<< name, jobId(name, t) >>] = @ + 1]

\* alertQueue.add(name, { tenantId }, { repeat, jobId }): a repeatable job
\* whose name, jobId and cron are already registered is the same job
add(reg, name, t) == [reg EXCEPT ![<< name, jobId(name, t) >>] = 1]

\* tenant t has a repeatable job of that name
Repeats(name, t) == queue.repeat[<< name, jobId(name, t) >>] > 0

\* prisma.tenant.findMany({ where: { isActive: true } })
ActiveTenants == {t \in TenantIds : tenants[t] = "active"}

ActiveJobs == {t \in TenantIds : queue.jobs[t].state = "active"}

\* bootstrap, at every start of the worker process: one daily and one
\* monthly repeatable job is added for every tenant active now
scheduleRecurringJobs ==
  /\ ActiveJobs = {}
  /\ queue.boots < MaxBoots
  /\ queue' = [queue EXCEPT
                 !.boots = queue.boots + 1,
                 !.repeat = [k \in RepeatKeys |->
                               IF k[2][2] \in ActiveTenants
                               THEN add(queue.repeat, k[1], k[2][2])[k]
                               ELSE queue.repeat[k]]]
  /\ UNCHANGED <<clock, settings, channels, subs, probe, logs, run, hist, tenants, parked, proc>>

\* TenantsService.create: tenant.create with isActive true
create ==
  /\ \E t \in TenantIds : tenants[t] = "absent" /\ tenants' = [tenants EXCEPT ![t] = "active"]
  /\ UNCHANGED <<clock, settings, channels, subs, probe, logs, run, hist, queue, parked, proc>>

\* TenantsService.remove: the soft delete, and TenantsService.update with
\* dto.isActive: both write the isActive column and nothing of the queue
remove ==
  /\ \E t \in TenantIds : tenants[t] # "absent" /\ tenants' = [tenants EXCEPT ![t] = "inactive"]
  /\ UNCHANGED <<clock, settings, channels, subs, probe, logs, run, hist, queue, parked, proc>>

update ==
  /\ \E t \in TenantIds, isActive \in BOOLEAN :
       /\ tenants[t] # "absent"
       /\ tenants' = [tenants EXCEPT ![t] = IF isActive THEN "active" ELSE "inactive"]
  /\ UNCHANGED <<clock, settings, channels, subs, probe, logs, run, hist, queue, parked, proc>>

\* the daily occasion, cron '0 9 * * *': every repeatable job yields its
\* job instance, once the instances of the occasion before are settled
cronFires ==
  /\ \A t \in TenantIds : queue.jobs[t].state \notin {"waiting", "active"}
  /\ \E t \in TenantIds : Repeats("process-alerts", t)
  /\ queue' = [queue EXCEPT !.jobs = [t \in TenantIds |->
                   IF Repeats("process-alerts", t)
                   THEN [state |-> "waiting", attemptsMade |-> 0] ELSE NoJob]]
  /\ UNCHANGED <<clock, settings, channels, subs, probe, logs, run, hist, tenants, parked, proc>>

\* the Worker takes a waiting job while fewer than Concurrency are in
\* flight and calls the processor: processAlerts(job.data.tenantId)
takeJob ==
  /\ Cardinality(ActiveJobs) < Concurrency
  /\ \E t \in TenantIds :
       /\ queue.jobs[t].state = "waiting"
       /\ queue' = [queue EXCEPT !.jobs[t] =
                      [state |-> "active", attemptsMade |-> queue.jobs[t].attemptsMade + 1]]
  /\ UNCHANGED <<clock, settings, channels, subs, probe, logs, run, hist, tenants, parked, proc>>

\* the state of a job whose processor returned (threw = FALSE) or rethrew
Settled(job, threw) ==
  IF ~threw THEN [job EXCEPT !.state = "completed"]
  ELSE IF job.attemptsMade < Attempts THEN [job EXCEPT !.state = "waiting"]
  ELSE [job EXCEPT !.state = "failed"]

\* the processor returns or rethrows the error of the run: 'completed' or
\* 'failed' is logged
jobSettles ==
  /\ \E t \in ActiveJobs, threw \in BOOLEAN :
       queue' = [queue EXCEPT !.jobs[t] = Settled(queue.jobs[t], threw)]
  /\ UNCHANGED <<clock, settings, channels, subs, probe, logs, run, hist, tenants, parked, proc>>

\* the event loop: with more than one job in flight the Worker resumes, at
\* an await, the run of the other job
Switch ==
  /\ Concurrency > 1
  /\ run.pc # "idle" \/ parked.pc # "idle"
  /\ run' = parked
  /\ parked' = run
  /\ hist' = IF run.pc # "idle" THEN [hist EXCEPT !.suspended = TRUE] ELSE hist
  /\ UNCHANGED <<clock, settings, channels, subs, probe, logs, tenants, queue, proc>>

\* a step of the alert service: it reads and writes nothing of the worker
Service(A) == A /\ UNCHANGED workerVars

\* the worker process after bootstrap
Running == [state |-> "running", signalPc |-> "none"]

\* the Worker fetches a job only while it is not closing
Fetch(A) == proc.state = "running" /\ Service(A)

\* a job in flight goes on until the process exits
InFlight(A) == proc.state # "exited" /\ Service(A)

InFlightSwitch == proc.state # "exited" /\ Switch

\* SIGTERM or SIGINT: shutdown() starts and awaits alertWorker.close()
shutdown ==
  /\ proc.state = "running"
  /\ proc' = [state |-> "closing", signalPc |-> run.pc]
  /\ UNCHANGED <<clock, settings, channels, subs, probe, logs, run, hist, tenants, queue, parked>>

\* the connections are closed and the process exits at once
shutdownExits_Forced ==
  /\ proc.state = "closing"
  /\ proc' = [proc EXCEPT !.state = "exited"]
  /\ UNCHANGED <<clock, settings, channels, subs, probe, logs, run, hist, tenants, queue, parked>>

\* alertWorker.close() resolves once the jobs in flight have settled; then
\* alertQueue.close(), redis.quit(), prisma.$disconnect() and process.exit(0)
shutdownExits ==
  /\ proc.state = "closing"
  /\ run.pc = "idle"
  /\ parked.pc = "idle"
  /\ proc' = [proc EXCEPT !.state = "exited"]
  /\ UNCHANGED <<clock, settings, channels, subs, probe, logs, run, hist, tenants, queue, parked>>

\* the tenant of the run alone, and an idle queue
OneTenant == [t \in TenantIds |-> IF t = "t1" THEN "active" ELSE "absent"]

(***************************************************************************)
(* Initial states and specifications.                                      *)
(***************************************************************************)
Channel(type, isActive) == [type |-> type, isActive |-> isActive]

Subscription(status, nextRenewalDate, missingData) ==
  [status |-> status, nextRenewalDate |-> nextRenewalDate, missingData |-> missingData]

GoogleChatChannels(A) == [c \in ChannelIds |-> Channel("GOOGLE_CHAT", c \in A)]

\* the latest evaluation of the quiet-hours comparison on its own
NoProbe == [minute |-> None, result |-> FALSE]

InitWith(S, C, U) ==
  /\ clock = 0
  /\ settings \in S
  /\ channels \in C
  /\ subs \in U
  /\ logs = << >>
  /\ run = Idle
  /\ hist = NoHistory
  /\ probe = NoProbe
  /\ tenants = OneTenant
  /\ queue = EmptyQueue
  /\ parked = Idle
  /\ proc = Running

\* Spec: the lead-time and overdue rules.  s1 renews at midnight of day 1:
\* it is due tomorrow on day 0 and overdue later on day 1; s2 (when active)
\* was due the day before day 0 and is overdue throughout; no data is missing.
DedupSubs ==
  { [s \in SubIds |->
       IF s = "s1" THEN Subscription("ACTIVE", addDays(0, 1), FALSE)
       ELSE Subscription(st2, addDays(0, 0 - 1), FALSE)]
    : st2 \in {"ACTIVE", "PAUSED"} }

Init ==
  InitWith({DefaultSettings},
           {GoogleChatChannels(A) : A \in {{}, {"c1"}, {"c1", "c2"}}},
           DedupSubs)

Next ==
  \/ Service(processAlertsForTenant)
  \/ Service(NextRule)
  \/ Service(CheckCandidate)
  \/ Service(sendAlertCreate)
  \/ Service(sendAlertDispatch)
  \/ Service(Tick(HorizonDays))

Spec == Init /\ [][Next]_vars


\* SpecDq: the data-quality rule.  s1 is active with data missing and renews
\* beyond the horizon of every lead-time rule, s2 is paused.
DqSubs ==
  { [s \in SubIds |->
       IF s = "s1" THEN Subscription("ACTIVE", addDays(0, 3 * DqHorizonDays + 14), TRUE)
       ELSE Subscription("PAUSED", addDays(0, 1), TRUE)] }

InitDq ==
  InitWith({DefaultSettings},
           {GoogleChatChannels(A) : A \in {{"c1"}, {"c1", "c2"}}},
           DqSubs)

NextDq ==
  \/ Service(processAlertsForTenant)
  \/ Service(NextRule)
  \/ Service(sendDataQualityAlert)
  \/ Service(Tick(DqHorizonDays))

SpecDq == InitDq /\ [][NextDq]_vars

\* the quiet-hours bounds and timezones a tenant admin stores
QuietStrings == {Unset} \cup {format(m) : m \in {0, 6 * 60, 12 * 60, 22 * 60}}

TimezoneOffsets == {0, 1}

QuietSettings ==
  { [DefaultSettings EXCEPT !.quietHoursStart = qs, !.quietHoursEnd = qe, !.timezone = tz]
    : qs \in QuietStrings, qe \in QuietStrings, tz \in TimezoneOffsets }

\* SpecMonthly: the monthly occasion under every quiet-hours setting
InitMonthly ==
  InitWith(QuietSettings \cup {[DefaultSettings EXCEPT !.enableMonthlySummary = FALSE]},
           {GoogleChatChannels(A) : A \in {{}, {"c1"}, {"c1", "c2"}}},
           DedupSubs)

NextMonthly ==
  \/ Service(sendMonthlySummary)
  \/ Service(sendMonthlyPost)
  \/ Service(Tick(QuietHorizonDays))

SpecMonthly == InitMonthly /\ [][NextMonthly]_vars

\* SpecQuiet: the daily occasion under every quiet-hours setting, one channel
QuietSubs ==
  { [s \in SubIds |->
       IF s = "s1" THEN Subscription("ACTIVE", addDays(0, 1), FALSE)
       ELSE Subscription("PAUSED", addDays(0, 1), FALSE)] }

InitQuiet ==
  InitWith(QuietSettings, {GoogleChatChannels({"c1"})}, QuietSubs)

NextQuiet ==
  \/ Service(processAlertsForTenant)
  \/ Service(NextRule)
  \/ Service(CheckCandidate)
  \/ Service(sendAlertCreate)
  \/ Service(sendAlertDispatch)
  \/ Service(Tick(QuietHorizonDays))

SpecQuiet == InitQuiet /\ [][NextQuiet]_vars

\* SpecGate: isInQuietHours on its own, over bounds and current times that
\* differ in the hour, in the minute, or not at all
GateStrings ==
  {Unset} \cup {format(m) : m \in {0, 6 * 60, 9 * 60 + 30, 12 * 60, 22 * 60, 23 * 60 + 59}}

GateMinutes ==
  {0, 1, 6 * 60 - 1, 6 * 60, 6 * 60 + 1, 9 * 60 + 30, 12 * 60, 22 * 60 - 1, 22 * 60, 23 * 60 + 59}

evalQuietHours ==
  /\ \E m \in GateMinutes :
       probe' = [minute |-> m, result |-> isInQuietHoursAt(settings, format(m))]
  /\ UNCHANGED <<clock, settings, channels, subs, logs, run, hist>>

InitGate ==
  InitWith({ [DefaultSettings EXCEPT !.quietHoursStart = qs, !.quietHoursEnd = qe]
             : qs \in GateStrings, qe \in GateStrings },
           {GoogleChatChannels({"c1"})}, QuietSubs)

NextGate == Service(evalQuietHours)

SpecGate == InitGate /\ [][NextGate]_vars

\* SpecWindow: the lead-time windows.  s1 is active and renews at any
\* instant from the day before day 0 to day WindowDays; s2 renews 7 days
\* after day 0, or at the first instant past the 14-day window, in any status
WindowSubs ==
  { [s \in SubIds |->
       IF s = "s1" THEN Subscription("ACTIVE", r1, FALSE)
       ELSE Subscription(st2, r2, FALSE)]
    : r1 \in addDays(0, 0 - 1) .. EndOfDay(addDays(0, WindowDays)),
      st2 \in {"ACTIVE", "PAUSED", "CANCELLED"},
      r2 \in {addDays(0, 7), addDays(0, 15)} }

InitWindow ==
  InitWith({DefaultSettings}, {GoogleChatChannels({"c1"})}, WindowSubs)

NextWindow ==
  \/ Service(processAlertsForTenant)
  \/ Service(NextRule)
  \/ Service(CheckCandidate)
  \/ Service(sendAlertCreate)
  \/ Service(sendAlertDispatch)
  \/ Service(Tick(WindowHorizonDays))

SpecWindow == InitWindow /\ [][NextWindow]_vars

\* SpecRace: two daily jobs of the tenant in flight in one Worker, their
\* runs interleaved at the awaits; s1 is due tomorrow, one channel
InitRace ==
  InitWith({DefaultSettings}, {GoogleChatChannels({"c1"})}, QuietSubs)

NextRace ==
  \/ Service(processAlertsForTenant)
  \/ Service(NextRule)
  \/ Service(CheckCandidate)
  \/ Service(sendAlertCreate)
  \/ Service(sendAlertDispatch)
  \/ Switch

SpecRace == InitRace /\ [][NextRace]_vars

\* SpecWorker: the tenants, the repeatable jobs and the Worker.  t1 exists
\* before the worker process starts, t2 may, t3 is created later if at all
WorkerTenants ==
  { [t \in TenantIds |-> IF t = "t1" THEN "active" ELSE IF t = "t2" THEN st2 ELSE "absent"]
    : st2 \in {"active", "inactive", "absent"} }

InitWorker ==
  /\ clock = 0
  /\ settings = DefaultSettings
  /\ channels = GoogleChatChannels({"c1"})
  /\ subs \in QuietSubs
  /\ logs = << >>
  /\ run = Idle
  /\ hist = NoHistory
  /\ probe = NoProbe
  /\ tenants \in WorkerTenants
  /\ queue = EmptyQueue
  /\ parked = Idle
  /\ proc = Running

NextWorker ==
  \/ scheduleRecurringJobs
  \/ create
  \/ remove
  \/ update
  \/ cronFires
  \/ takeJob
  \/ jobSettles

SpecWorker == InitWorker /\ [][NextWorker]_vars

\* SpecWait: the daily run with the steps of the service itself taken
\* whenever they can be.  The step that ends a POST needs the answer of the
\* channel's endpoint (a response, or an error of the connection): fetch is
\* called without a signal or timeout, so nothing in the service makes that
\* step happen
NextWait ==
  \/ Service(processAlertsForTenant)
  \/ Service(NextRule)
  \/ Service(CheckCandidate)
  \/ Service(sendAlertCreate)
  \/ Service(sendAlertDispatch)
  \/ Service(Tick(QuietHorizonDays))

FairWait ==
  /\ WF_vars(Service(NextRule))
  /\ WF_vars(Service(CheckCandidate))
  /\ WF_vars(Service(sendAlertCreate))

SpecWait == InitRace /\ [][NextWait]_vars /\ FairWait

\* SpecShutdown: up to two daily jobs of the tenant in flight and a signal
\* at any moment
NextShutdown ==
  \/ Fetch(processAlertsForTenant)
  \/ InFlight(NextRule)
  \/ InFlight(CheckCandidate)
  \/ InFlight(sendAlertCreate)
  \/ InFlight(sendAlertDispatch)
  \/ InFlightSwitch
  \/ shutdown
  \/ shutdownExits

SpecShutdown == InitRace /\ [][NextShutdown]_vars

\* SpecSettings: a tenant without an AlertSettings row, until the settings
\* API is first read
InitSettings ==
  InitWith({NoSettings}, {GoogleChatChannels({"c1"})}, QuietSubs)

NextSettings ==
  \/ Service(getAlertSettings)
  \/ Service(processAlertsForTenant)
  \/ Service(NextRule)
  \/ Service(CheckCandidate)
  \/ Service(sendAlertCreate)
  \/ Service(sendAlertDispatch)
  \/ Service(Tick(QuietHorizonDays))

SpecSettings == InitSettings /\ [][NextSettings]_vars

\* SpecOrder: one run after another under every choice of the tomorrow,
\* overdue and data-quality switches.  s1 renews tomorrow and has data
\* missing, s2 was due the day before day 0.
OrderSettings ==
  { [DefaultSettings EXCEPT !.enableTomorrow = t, !.enableOverdue = o,
                            !.enableDataQuality = d]
    : t, o, d \in BOOLEAN }

OrderSubs ==
  { [s \in SubIds |->
       IF s = "s1" THEN Subscription("ACTIVE", addDays(0, 1), TRUE)
       ELSE Subscription("ACTIVE", addDays(0, 0 - 1), FALSE)] }

InitOrder ==
  InitWith(OrderSettings, {GoogleChatChannels(A) : A \in {{"c1"}, {"c1", "c2"}}}, OrderSubs)

NextOrder ==
  \/ Service(processAlertsForTenant)
  \/ Service(NextRule)
  \/ Service(CheckCandidate)
  \/ Service(sendAlertCreate)
  \/ Service(sendAlertDispatch)
  \/ Service(sendDataQualityAlert)

SpecOrder == InitOrder /\ [][NextOrder]_vars

\* SpecLead: the lead-time rules, one run after another over the days up to
\* LeadHorizonDays, one or two channels; s1 renews at midnight of day 1
InitLead ==
  InitWith({DefaultSettings}, {GoogleChatChannels(A) : A \in {{"c1"}, {"c1", "c2"}}}, QuietSubs)

NextLead ==
  \/ Service(processAlertsForTenant)
  \/ Service(NextRule)
  \/ Service(CheckCandidate)
  \/ Service(sendAlertCreate)
  \/ Service(sendAlertDispatch)
  \/ Service(Tick(LeadHorizonDays))

SpecLead == InitLead /\ [][NextLead]_vars

\* SpecOverdue: the overdue rule over the days up to HorizonDays, one run
\* after another.  s1 was due the day before day 0, s2 is paused.
OverdueSubs ==
  { [s \in SubIds |->
       IF s = "s1" THEN Subscription("ACTIVE", addDays(0, 0 - 1), FALSE)
       ELSE Subscription("PAUSED", addDays(0, 0 - 1), FALSE)] }

InitOverdue ==
  InitWith({DefaultSettings}, {GoogleChatChannels({"c1"})}, OverdueSubs)

NextOverdue ==
  \/ Service(processAlertsForTenant)
  \/ Service(NextRule)
  \/ Service(CheckCandidate)
  \/ Service(sendAlertCreate)
  \/ Service(sendAlertDispatch)
  \/ Service(Tick(HorizonDays))

SpecOverdue == InitOverdue /\ [][NextOverdue]_vars

\* SpecStub: c1 is a Slack or generic-webhook channel, c2 a Google Chat
\* channel an admin switches on and off; s1 renews tomorrow, s2 was due the
\* day before day 0; every run is on day 0.
StubChannels ==
  { [c \in ChannelIds |->
       IF c = "c1" THEN Channel(type, TRUE) ELSE Channel("GOOGLE_CHAT", a)]
    : type \in {"SLACK", "WEBHOOK"}, a \in BOOLEAN }

StubSubs ==
  { [s \in SubIds |->
       IF s = "s1" THEN Subscription("ACTIVE", addDays(0, 1), FALSE)
       ELSE Subscription("ACTIVE", addDays(0, 0 - 1), FALSE)] }

InitStub == InitWith({DefaultSettings}, StubChannels, StubSubs)

NextStub ==
  \/ Service(processAlertsForTenant)
  \/ Service(NextRule)
  \/ Service(CheckCandidate)
  \/ Service(sendAlertCreate)
  \/ Service(sendAlertDispatch)
  \/ Service(updateAlertChannel)

SpecStub == InitStub /\ [][NextStub]_vars

(***************************************************************************)
(* Properties of the dedup ledger (Spec).                                  *)
(***************************************************************************)
\* the rows of the key (subscription s, rule type, due date of s)
RowsOf(s, ruleType) ==
  {i \in LogIds : KeyOf(logs[i]) = << s, ruleType, subs[s].nextRenewalDate >>}

\* the step is the dedup lookup of subscription s
Picks(s) == run.pc = "cand" /\ s \in run.todo /\ s \notin run'.todo

\* the lookup of s ended with the alert going out to every channel of the run
Dispatches(s) == run'.pc = "send" /\ run'.sub = s /\ run'.chans = run.channels

\* C1: for every key (tenant, subscription, rule type, due date) at most one
\* AlertLog row has status Sent
C1_AtMostOneSentPerKey ==
  \A i, j \in LogIds :
    (logs[i].status = "SENT" /\ logs[j].status = "SENT" /\ KeyOf(logs[i]) = KeyOf(logs[j]))
      => i = j

\* C2: a candidate whose key has a Pending or Sent row is skipped by every
\* later run: no step of a run starts a dispatch for such a key
C2_PendingOrSentBlocks ==
  [][\A s \in SubIds :
       (Picks(s) /\ \E i \in RowsOf(s, RuleOrder[run.rule]) :
                       logs[i].status \in {"PENDING", "SENT"})
         => ~Dispatches(s)]_vars

\* C3: a candidate all of whose rows are Failed is dispatched again by any
\* later run in which it still qualifies, for the lead-time and overdue rules
C3_FailedDoesNotBlock ==
  [][\A s \in SubIds :
       (/\ Picks(s)
        /\ RowsOf(s, RuleOrder[run.rule]) # {}
        /\ \A i \in RowsOf(s, RuleOrder[run.rule]) : logs[i].status = "FAILED")
         => Dispatches(s)]_vars

\* the latest row of the key of (s, rule type) on channel c is Failed
LatestFailed(s, ruleType, c) ==
  LET onC == {i \in RowsOf(s, ruleType) : logs[i].channelId = c}
  IN onC # {} /\ \A i \in onC : (\A j \in onC : j <= i) => logs[i].status = "FAILED"

\* C4 as stated: a dispatch of a lead-time rule recorded Failed on a channel
\* is attempted again on the next run in which the subscription qualifies,
\* whatever the other channels recorded (every row of the key finalized)
C4_FailedChannelRetried ==
  [][\A s \in SubIds : \A c \in ChannelIds :
       (/\ Picks(s)
        /\ RuleOrder[run.rule] \in LeadRules
        /\ \E k \in 1 .. Len(run.channels) : run.channels[k] = c
        /\ LatestFailed(s, RuleOrder[run.rule], c)
        /\ \A i \in RowsOf(s, RuleOrder[run.rule]) : logs[i].status # "PENDING")
         => Dispatches(s)]_vars

\* C4 amended: for the lead-time rules the lookup of a candidate dispatches
\* to every channel of the run exactly when no row of the key is Pending or
\* Sent; a Failed row is retried only then
C4_RetriedUnlessHandled ==
  [][\A s \in SubIds :
       (Picks(s) /\ RuleOrder[run.rule] \in LeadRules)
         => (Dispatches(s) <=>
               \A i \in RowsOf(s, RuleOrder[run.rule]) : logs[i].status = "FAILED")]_vars

\* a lead-time alert is going out again to a channel whose earlier row is Failed
C4_Witness ==
  /\ run.pc = "post"
  /\ RuleOrder[run.rule] \in LeadRules
  /\ \E i \in LogIds : /\ i < run.logId
                       /\ KeyOf(logs[i]) = KeyOf(logs[run.logId])
                       /\ logs[i].channelId = logs[run.logId].channelId
                       /\ logs[i].status = "FAILED"


(***************************************************************************)
(* Properties of the data-quality and monthly alerts.                      *)
(***************************************************************************)
\* the step is the first data-quality POST of a run
FirstDataQualityPost == run.pc = "dq" /\ run.chans = run.channels /\ run' # run

\* C5: the data-quality alert goes out at most once in any rolling 7-day
\* window: a run posts it only if the latest one is more than 7 days old
C5_DataQualityThrottle ==
  [][(FirstDataQualityPost /\ hist.lastDq # None)
       => clock > addDays(hist.lastDq, 7)]_vars

\* C6: the monthly summary is posted to a channel at most once a month
C6_MonthlyOncePerMonth ==
  [][\A c \in ChannelIds :
       (run.pc = "monthly" /\ run' # run /\ Head(run.chans) = c /\ hist.lastMonthly[c] # None)
         => MonthOf(hist.lastMonthly[c]) # MonthOf(clock)]_vars

(***************************************************************************)
(* Properties of the quiet-hours gate.                                     *)
(***************************************************************************)
\* the reference predicate on minutes of the day
QuietRef(start, end, m) ==
  IF start = Unset \/ end = Unset THEN FALSE
  ELSE IF ParseHHmm(start) <= ParseHHmm(end)
       THEN ParseHHmm(start) <= m /\ m <= ParseHHmm(end)
       ELSE m >= ParseHHmm(start) \/ m <= ParseHHmm(end)

\* the tenant's wall clock is inside the tenant's quiet hours
TenantQuiet ==
  QuietRef(settings.quietHoursStart, settings.quietHoursEnd,
           ZoneMinutes(clock, settings.timezone))

\* the step of a run just suppressed by the gate
Suppressed == run.pc = "idle" /\ hist'.quietSkipAt # hist.quietSkipAt

\* the step makes an outbound POST
Posts ==
  /\ run' # run
  /\ \/ run.pc = "monthly"
     \/ run.pc = "dq"
     \/ run.pc = "post" /\ channels[Head(run.chans)].type = "GOOGLE_CHAT"

\* C7: a daily run the gate suppresses creates no AlertLog and starts no
\* dispatch: it leaves the ledger as it found it for the next run
C7_SuppressedRunLeavesNoTrace ==
  [][Suppressed => (logs' = logs /\ run' = Idle)]_vars

\* a dispatch is under way later on the day of a suppressed run, for a
\* lead-time candidate whose window matched at the suppressed run as well
C7_Witness ==
  /\ run.pc = "post"
  /\ RuleOrder[run.rule] \in LeadRules
  /\ hist.quietSkipAt # None
  /\ hist.quietSkipAt < clock
  /\ DayOf(hist.quietSkipAt) = DayOf(clock)
  /\ run.sub \in RenewalCandidates(hist.quietSkipAt, daysBefore(RuleOrder[run.rule]))

\* C8: isInQuietHours equals the reference predicate for every start, end
\* and current HH:MM
C8_QuietHoursPredicate ==
  probe.minute # None
    => probe.result = QuietRef(settings.quietHoursStart, settings.quietHoursEnd, probe.minute)

\* the comparison was applied to a window that spans midnight, at its end
C8_Witness ==
  /\ probe.minute # None
  /\ settings.quietHoursStart # Unset
  /\ settings.quietHoursEnd # Unset
  /\ ParseHHmm(settings.quietHoursStart) > ParseHHmm(settings.quietHoursEnd)
  /\ probe.minute = ParseHHmm(settings.quietHoursEnd)
  /\ probe.result

\* C9: no POST goes out while the tenant is inside its quiet hours, on the
\* daily and on the monthly occasion
C9_NoDispatchInQuietHours ==
  [][Posts => ~TenantQuiet]_vars

\* C10: the gate is decided on the tenant's wall clock: a daily run passes
\* it exactly when the time in the tenant's timezone is outside quiet hours
C10_GateInTenantTimezone ==
  [][/\ (run.pc = "idle" /\ run'.pc = "rule") => ~TenantQuiet
     /\ Suppressed => TenantQuiet]_vars

(***************************************************************************)
(* Properties of failure handling in sendAlert and the loops around it.    *)
(***************************************************************************)
\* the key of the candidate whose alert the run is sending
RunKey == << run.sub, RuleOrder[run.rule], subs[run.sub].nextRenewalDate >>

\* C11: failure isolation.  When the run has two channels, the first one (A)
\* answered 500 and the second one (B) answers 200 for the same candidate,
\* the ledger ends with exactly the two rows of the candidate, A's Failed and
\* B's Sent, and the run goes on to the next candidate or rule
C11_FailureIsolation ==
  [][(/\ run.pc = "post"
      /\ Len(run.channels) = 2
      /\ Len(run.chans) = 1
      /\ run.logId > 1
      /\ logs[run.logId - 1].responseCode = 500
      /\ logs'[run.logId].responseCode = 200)
       => (/\ Len(logs') = run.logId
           /\ KeyOf(logs'[run.logId - 1]) = RunKey
           /\ KeyOf(logs'[run.logId]) = RunKey
           /\ logs'[run.logId - 1].channelId = run.channels[1]
           /\ logs'[run.logId].channelId = run.channels[2]
           /\ logs'[run.logId - 1].status = "FAILED"
           /\ logs'[run.logId].status = "SENT"
           /\ run'.op = "daily"
           /\ run'.todo = run.todo
           /\ run'.pc = IF run.todo = {} THEN "rule" ELSE "cand")]_vars

\* the run went on after a candidate whose alert the first channel refused
\* with 500 and the second one accepted with 200
C11_Witness ==
  /\ run.op = "daily"
  /\ run.pc \in {"cand", "rule"}
  /\ Len(logs) >= 2
  /\ LET a == logs[Len(logs) - 1]
         b == logs[Len(logs)]
     IN /\ KeyOf(a) = KeyOf(b)
        /\ a.createdAt = b.createdAt
        /\ a.channelId # b.channelId
        /\ a.responseCode = 500 /\ a.status = "FAILED"
        /\ b.responseCode = 200 /\ b.status = "SENT"

\* the run goes on after the POST of a data-quality alert: to the next
\* channel, or past the rule once every channel had its POST
DataQualityGoesOn ==
  /\ run'.op = "daily"
  /\ IF Tail(run.chans) # << >>
     THEN run'.pc = "dq" /\ run'.chans = Tail(run.chans)
     ELSE run'.pc = "rule" /\ run'.rule = run.rule + 1

\* the run goes on after the POST of a lead-time or overdue alert: to the
\* next channel, the next candidate or the next rule
AlertGoesOn ==
  /\ run'.op = "daily"
  /\ IF Tail(run.chans) # << >>
     THEN run'.pc = "send" /\ run'.chans = Tail(run.chans)
     ELSE run'.pc = IF run.todo = {} THEN "rule" ELSE "cand"

\* C12: for every rule type, whatever the POST to one channel ends with (a
\* network error included), the run goes on with the remaining channels,
\* candidates and rules; for sendAlert, when its storage writes succeed
C12_NetworkErrorIsolated ==
  [][/\ (run.pc = "dq" /\ run' # run) => DataQualityGoesOn
     /\ (run.pc = "post" /\ DispatchWith("neterr", "ok")) => AlertGoesOn]_vars

\* C13: when the storage write that finalizes an AlertLog fails, the row
\* stays Pending and the run goes on with the remaining channels and
\* candidates
C13_FinalizeFailureSwallowed ==
  [][\A net \in NetOutcomes, db \in DbOutcomes \ {"ok"} :
       DispatchWith(net, db)
         => (logs'[run.logId].status = "PENDING" /\ AlertGoesOn)]_vars

\* C14: an AlertLog is finalized Sent if and only if the POST to its channel
\* returned 2xx, a non-2xx answer or a network error finalizes it Failed,
\* and sentAt is set exactly on the Sent rows
C14_SentIffSuccess ==
  [][\A net \in NetOutcomes, db \in DbOutcomes :
       (/\ DispatchWith(net, db)
        /\ channels[Head(run.chans)].type = "GOOGLE_CHAT"
        /\ logs'[run.logId].status # "PENDING")
         => (/\ logs'[run.logId].status = IF net = "2xx" THEN "SENT" ELSE "FAILED"
             /\ (logs'[run.logId].sentAt # None) <=> (logs'[run.logId].status = "SENT"))]_vars

\* C15: every outbound POST (lead-time, overdue, data-quality, monthly
\* summary) goes out for a Pending AlertLog of its candidate and channel,
\* created before it, and that row is Sent or Failed after it
C15_PostBetweenReserveAndFinalize ==
  [][Posts => (/\ run.logId \in LogIds
               /\ logs[run.logId].status = "PENDING"
               /\ logs[run.logId].channelId = Head(run.chans)
               /\ logs'[run.logId].status \in {"SENT", "FAILED"})]_vars

(***************************************************************************)
(* Properties of the lead-time windows (SpecWindow).                       *)
(***************************************************************************)
\* the lead time, in days, each renewal rule stands for
LeadTime(ruleType) ==
  CASE ruleType = "DAYS_14" -> 14
    [] ruleType = "DAYS_7" -> 7
    [] ruleType = "DAYS_3" -> 3
    [] ruleType = "TOMORROW" -> 1

\* the step evaluates the query of a lead-time rule
EvaluatesLeadRule ==
  /\ run.pc = "rule"
  /\ run.rule <= Len(RuleOrder)
  /\ RuleOrder[run.rule] \in LeadRules
  /\ run' # run

\* the query of the step selected subscription s
Selects(s) == run'.pc = "cand" /\ s \in run'.todo

\* C16: the rule with lead time N selects exactly the Active subscriptions
\* whose renewal lies on the calendar day N days after the day of the run;
\* so a renewal on day today+N, N in {14, 7, 3, 1}, is selected by that one
\* rule, and any other offset or status by no lead-time rule
C16_LeadTimeWindow ==
  [][EvaluatesLeadRule
       => \A s \in SubIds :
            Selects(s) <=> (/\ subs[s].status = "ACTIVE"
                            /\ DayOf(subs[s].nextRenewalDate)
                                 = DayOf(run.now) + LeadTime(RuleOrder[run.rule]))]_vars

\* the 7-day rule of a run late in the day selected a subscription that
\* renews in the last instant of the day 7 days ahead
C16_Witness ==
  /\ run.pc = "cand"
  /\ RuleOrder[run.rule] = "DAYS_7"
  /\ "s1" \in run.todo
  /\ run.now # StartOfDay(run.now)
  /\ subs["s1"].nextRenewalDate = EndOfDay(addDays(run.now, 7))

(***************************************************************************)
(* Properties of the worker (SpecWorker) and of interleaved runs           *)
(* (SpecRace).                                                             *)
(***************************************************************************)
\* C17: job execution on the alerts queue is serialized: at no time are two
\* jobs in flight
C17_OneJobAtATime == Cardinality(ActiveJobs) <= 1

\* two Sent rows of one lead-time key on one channel
DuplicateSent ==
  \E i, j \in LogIds :
    /\ i # j
    /\ logs[i].ruleType \in LeadRules
    /\ KeyOf(logs[i]) = KeyOf(logs[j])
    /\ logs[i].channelId = logs[j].channelId
    /\ logs[i].status = "SENT"
    /\ logs[j].status = "SENT"

\* C18: the lookup and the insert of the dedup check are separate steps, so
\* two Sent rows for one (key, channel) of a lead-time rule arise when two
\* runs of the tenant interleave, and only then: never unless a run was
\* suspended in favour of another
C18_DuplicateOnlyByInterleaving == DuplicateSent => hist.suspended

\* both interleaved runs found no row, created one and had it Sent
C18_Witness == DuplicateSent /\ hist.suspended /\ run.pc = "idle" /\ parked.pc = "idle"

\* C19: a job whose processor throws is queued again until it succeeds or
\* was attempted 5 times, and ends Failed only with its fifth attempt
C19_RetriedUpToFive ==
  [][\A t \in TenantIds :
       (/\ queue.jobs[t].state = "active"
        /\ queue'.jobs[t].state \notin {"active", "completed"})
         => queue'.jobs[t].state =
              IF queue.jobs[t].attemptsMade < 5 THEN "waiting" ELSE "failed"]_vars

\* the step is a daily occasion: job instances appear in a settled queue
Occasion ==
  /\ \A t \in TenantIds : queue.jobs[t].state \notin {"waiting", "active"}
  /\ \E t \in TenantIds : queue'.jobs[t].state = "waiting"

\* C20: a daily occasion triggers a run for exactly the tenants active at
\* that time, those created after the worker started included
C20_EveryActiveTenantTriggered ==
  [][Occasion => \A t \in TenantIds :
                   (queue'.jobs[t].state = "waiting") <=> (tenants[t] = "active")]_vars

C22_BoundedWait == [](run.pc = "post" => <>(run.pc # "post"))

\* C23: the process exits, with its connections closed, only when no job
\* is in flight: none is cut off between writing Pending and finalizing
C23_GracefulShutdown ==
  proc.state = "exited" => (run.pc = "idle" /\ parked.pc = "idle")

\* the signal arrived during a POST, and the process exited with every
\* AlertLog finalized
C23_Witness ==
  /\ proc.state = "exited"
  /\ proc.signalPc = "post"
  /\ logs # << >>
  /\ \A i \in LogIds : logs[i].status \in {"SENT", "FAILED"}

(***************************************************************************)
(* Properties of the settings, the ledger rows and the order of the rules. *)
(***************************************************************************)
\* the step is the start of a daily run
StartsRun == run.pc = "idle" /\ (run'.pc = "rule" \/ hist' # hist)

\* C24: a run for a tenant without AlertSettings creates them with the
\* defaults and evaluates the rules with them
C24_SettingsCreatedOnFirstRun ==
  [][(StartsRun /\ ~settings.present /\ ActiveChannels # {})
       => (settings' = DefaultSettings /\ run'.pc = "rule" /\ run'.st = DefaultSettings)]_vars

\* C25: a row of the AlertLog table is never removed, a row that is Sent or
\* Failed keeps its status, and a status changes only from Pending to Sent or
\* from Pending to Failed.
Terminal == {"SENT", "FAILED"}

C25_TerminalRowsImmutable ==
  [][/\ Len(logs') >= Len(logs)
     /\ \A i \in LogIds :
          /\ KeyOf(logs'[i]) = KeyOf(logs[i])
          /\ logs'[i].createdAt = logs[i].createdAt
          /\ logs[i].status \in Terminal => logs'[i] = logs[i]
          /\ logs'[i].status # logs[i].status
               => logs[i].status = "PENDING" /\ logs'[i].status \in Terminal]_vars

\* a row was finalized, and the same alert was reserved and finalized again
\* in a later row
C25_Witness ==
  \E i, j \in LogIds :
    /\ i < j
    /\ KeyOf(logs[i]) = KeyOf(logs[j])
    /\ logs[i].status \in Terminal
    /\ logs[j].status \in Terminal

\* C26: within one run the rules are taken in the order of RuleOrder: the
\* rule of the run never goes back, it moves on by one and only between
\* dispatches, with the row of the latest dispatch finalized; every row and
\* every data-quality POST belongs to the rule the run is at; and a run is at
\* a candidate or a dispatch only of a rule its settings enable.
AtDispatch(r) == r.pc \in {"cand", "send", "post", "dq"}

C26_RulesInOrder ==
  [][(run.pc # "idle" /\ run'.pc # "idle") =>
       /\ run'.rule >= run.rule
       /\ run'.rule # run.rule =>
            /\ run'.rule = run.rule + 1
            /\ run'.pc = "rule"
            /\ run.logId # 0 => logs'[run.logId].status \in Terminal
       /\ Len(logs') > Len(logs) => logs'[Len(logs')].ruleType = RuleOrder[run.rule]
       /\ hist'.lastDq # hist.lastDq => RuleOrder[run.rule] = "DATA_QUALITY"
       /\ AtDispatch(run') => ruleEnabled(run'.st, RuleOrder[run'.rule])]_vars

\* a run with the overdue rule switched off is at the data-quality POST,
\* the tomorrow alert of the same run finalized
C26_Witness ==
  /\ run.pc = "dq"
  /\ ~run.st.enableOverdue
  /\ run.st.enableTomorrow
  /\ \E i \in LogIds : logs[i].ruleType = "TOMORROW" /\ logs[i].status \in Terminal
  /\ \A i \in LogIds : logs[i].ruleType # "OVERDUE"

\* C27: with one run of the tenant after another, of the rows of a lead-time
\* rule with one key (subscription, rule type, due date) and one channel at
\* most one is Sent, whatever the endpoint answered in any run.
C27_OneSentPerLeadKeyAndChannel ==
  \A i, j \in LogIds :
    ( /\ logs[i].ruleType \in LeadRules
      /\ KeyOf(logs[i]) = KeyOf(logs[j])
      /\ logs[i].channelId = logs[j].channelId
      /\ logs[i].status = "SENT"
      /\ logs[j].status = "SENT" ) => i = j

\* a run that started after the alert was Sent is past the rule, the
\* subscription still due tomorrow, and has created no row for it
C27_Witness ==
  /\ run.pc = "rule"
  /\ run.rule > 4
  /\ \E i \in LogIds :
       /\ logs[i].ruleType = "TOMORROW"
       /\ logs[i].status = "SENT"
       /\ logs[i].createdAt < run.now
       /\ logs[i].subscriptionId \in RenewalCandidates(run.now, 1)
       /\ \A j \in LogIds : KeyOf(logs[j]) = KeyOf(logs[i]) => logs[j].createdAt < run.now

\* the OVERDUE rows of s created on the calendar day of instant t
OverdueRowsOn(s, t) ==
  { i \in LogIds : /\ logs[i].subscriptionId = s
                   /\ logs[i].ruleType = "OVERDUE"
                   /\ DayOf(logs[i].createdAt) = DayOf(t) }

C29_NowSameForEveryRule ==
  [][(run.pc # "idle" /\ run'.pc # "idle") => run'.now = run.now]_vars

\* the rows of the rule the run is at for subscription s
RowsOfCandidate(s) ==
  { i \in LogIds : logs[i].subscriptionId = s /\ logs[i].ruleType = RuleOrder[run.rule] }

StubTypes == {"SLACK", "WEBHOOK"}

\* C30: the dispatch to a Slack or generic-webhook channel makes no request
\* and never leaves its row Sent, and the rows it leaves do not keep a
\* candidate from the Google Chat channels: a run with a Google Chat channel
\* dispatches every candidate whose rows are all finalized rows of Slack or
\* generic-webhook channels.
C30_StubDispatchIsNoOp ==
  [][/\ (run.pc = "post" /\ channels[Head(run.chans)].type \in StubTypes) =>
          /\ logs'[run.logId].status # "SENT"
          /\ logs'[run.logId].responseCode \in {None, 0}
          /\ logs'[run.logId].sentAt = None
     /\ \A s \in SubIds :
          ( /\ Picks(s)
            /\ \E k \in 1 .. Len(run.channels) : channels[run.channels[k]].type = "GOOGLE_CHAT"
            /\ \A i \in RowsOfCandidate(s) :
                 /\ channels[logs[i].channelId].type \in StubTypes
                 /\ logs[i].status # "PENDING" )
            => Dispatches(s)]_vars

====
